---- MODULE Spec2Model ----
(***************************************************************************)
(* Cache-aside read path of properties/utils.py: the Django cache (Redis)  *)
(* in front of the Property table, the invalidation and warming helpers,   *)
(* the cache statistics and the Redis keyspace metrics.                    *)
(*                                                                         *)
(* Spec        the cache layer with up to MaxCalls calls in flight, each   *)
(*             taken one statement at a time (nothing in the source holds  *)
(*             a lock), interleaved with Property table mutations and the  *)
(*             passing of time (Redis expiring keys).                      *)
(* SpecFault   the same, with collaborators that may fail.                 *)
(* SpecConc, SpecConcProperty                                              *)
(*             get_all_properties() and get_property_by_id() alone, with   *)
(*             the history of every cache entry.                           *)
(* SpecMetrics get_redis_cache_metrics() applied to every INFO reply and   *)
(*             failure mode within the bounds.                             *)
(* SpecViews   the four views of properties/views.py, two of them behind   *)
(*             cache_page, a request taken one statement at a time         *)
(*             between invalidations, table mutations and expiries.        *)
(***************************************************************************)
EXTENDS Integers, Sequences, FiniteSets, Bags, TLC

VARIABLES
    db,          \* Property table: id -> row, for the ids that have a row
    cache,       \* Redis through django.core.cache: key -> [value, ttl]
    last,        \* the most recent event: a call that has ended, with its
                 \* result and what it did, or a change of the table, or
                 \* the passing of time
    invalidated, \* history: invalidate_properties_cache() returned while no
                 \* get_all_properties() was in flight, and none has
                 \* written `all_properties` since
    info,        \* SpecMetrics: the reply of redis_conn.info()
    fault,       \* SpecMetrics: where the administrative interface fails;
                 \* SpecFault: the call that failed in the most recent event
    metrics,     \* SpecMetrics: what get_redis_cache_metrics() returned
    procs,       \* the calls in flight: where each is and what it holds (a
                 \* bag of frames; in SpecConc and SpecConcProperty, one
                 \* record per worker)
    origin       \* SpecConc, SpecConcProperty: history of the cache
                 \* entries: key -> how the entry came to be written

vars == <<db, cache, last, invalidated, info, fault, metrics, procs, origin>>

(***************************************************************************)
(* Bounds of the model.                                                    *)
(***************************************************************************)
MaxStamp == 2     \* created_at values are 1..MaxStamp
TickStep == 1800  \* seconds that pass in one Tick
MaxCounter == 100  \* keyspace_hits and keyspace_misses are 0..MaxCounter
MaxCalls == 2     \* calls of the cache layer that may be in flight at once

(***************************************************************************)
(* Constants of the program.                                               *)
(***************************************************************************)
ALL_TIMEOUT == 3600
PROPERTY_TIMEOUT == 1800
STATS_TIMEOUT == 3600

\* Python values: None, a list, an int, a Property row (a record of its
\* fields).
None == [py |-> "None"]
List(s) == [py |-> "list", items |-> s]
PyInt(n) == [py |-> "int", v |-> n]
len(v) == Len(v.items)
\* The ids a Property may have and a caller may ask for.
Ids == {1, 2}
\* created_at: instants, earlier to later; rows may share one.
Stamps == 1..MaxStamp

\* A row of the Property table, reduced to the fields the cache layer reads.
Property == [id : Ids, created_at : Stamps]

(***************************************************************************)
(* Key formatting: 'all_properties' and f'property_{property_id}'.         *)
(***************************************************************************)
ALL_KEY == "all_properties"

Digit(d) ==
    CASE d = 0 -> "0" [] d = 1 -> "1" [] d = 2 -> "2" [] d = 3 -> "3"
      [] d = 4 -> "4" [] d = 5 -> "5" [] d = 6 -> "6" [] d = 7 -> "7"
      [] d = 8 -> "8" [] d = 9 -> "9"

RECURSIVE IntStr(_)
IntStr(n) == IF n < 10 THEN Digit(n) ELSE IntStr(n \div 10) \o Digit(n % 10)

PropertyKey(property_id) == "property_" \o IntStr(property_id)

(***************************************************************************)
(* The cache backend: get / set / delete by key, per-key expiry.           *)
(***************************************************************************)
CacheGet(c, key) == IF key \in DOMAIN c THEN c[key].value ELSE None

CacheSet(c, key, value, timeout) ==
    [k \in DOMAIN c \cup {key} |->
        IF k = key THEN [value |-> value, ttl |-> timeout] ELSE c[k]]

CacheDelete(c, key) == [k \in DOMAIN c \ {key} |-> c[k]]

\* Redis after `secs` seconds: every key's remaining time to live drops by
\* secs, and the keys whose time has run out are gone.
Expire(c, secs) ==
    [k \in {j \in DOMAIN c : c[j].ttl > secs} |->
        [value |-> c[k].value, ttl |-> c[k].ttl - secs]]

(***************************************************************************)
(* The Property table.                                                     *)
(***************************************************************************)
Rows(d) == {d[i] : i \in DOMAIN d}

IsOrderedByCreatedDesc(s) ==
    \A i \in 1..(Len(s) - 1) : s[i].created_at >= s[i + 1].created_at

RECURSIVE Listings(_)
\* Every sequence that holds each row of the set once.
Listings(rows) ==
    IF rows = {} THEN {<<>>}
    ELSE UNION {{<<r>> \o s : s \in Listings(rows \ {r})} : r \in rows}

\* list(Property.objects.all().order_by('-created_at')): the rows, newest
\* first; rows with equal created_at come in an order the database picks.
QueryAll(d) == {List(s) : s \in {t \in Listings(Rows(d)) : IsOrderedByCreatedDesc(t)}}

\* Property.objects.get(id=property_id)
QueryGet(d, property_id) ==
    IF property_id \in DOMAIN d
    THEN [raised |-> "none", value |-> d[property_id]]
    ELSE [raised |-> "DoesNotExist", value |-> None]

(***************************************************************************)
(* The cache layer. No function of it holds a lock or opens a transaction: *)
(* cache.get, the query of the Property table, cache.set and cache.delete  *)
(* are each a round trip, and other workers and collaborators run between  *)
(* one and the next. A function is an operator from where a call of it is  *)
(* (its frame) to what the statement it is at does: the call goes on to    *)
(* its next statement, or it ends with a result or an exception.           *)
(*                                                                         *)
(* f is the collaborator call that raises in the statement - "cache.get",  *)
(* "query" (of the Property table), "cache.set", "cache.delete" - or       *)
(* "none". Nothing in the functions catches but                            *)
(* `except Property.DoesNotExist`. A cache.set() that raises has stored    *)
(* nothing.                                                                *)
(***************************************************************************)
\* The frame of a call: the function, its argument, and where the call is -
\* "idle": at its first statement, the cache.get; "missed": the cache.get
\* found nothing, the query is next; "queried": the query has answered
\* `value`, the cache.set is next.
Frame(op, property_id, pc, value) ==
    [op |-> op, property_id |-> property_id, pc |-> pc, value |-> value]

\* The statement ends the call. hit: the cache.get() found the key; gets,
\* sets, deletes: the calls the call has made of cache.get(), cache.set(),
\* cache.delete(); queries: the queries it has made of the Property table;
\* raised: the exception that left the function.
Outcome(ret, c, hit, gets, queries, sets, deletes, raised) ==
    [pc |-> "idle", value |-> None, ret |-> ret, cache |-> c, hit |-> hit,
     gets |-> gets, queries |-> queries, sets |-> sets, deletes |-> deletes,
     raised |-> raised]

\* The statement leaves the call at pc, holding value.
GoesOn(pc, value, c) ==
    [pc |-> pc, value |-> value, ret |-> None, cache |-> c, hit |-> FALSE,
     gets |-> 0, queries |-> 0, sets |-> 0, deletes |-> 0, raised |-> "none"]

\* The exception a failing call raises.
Raised(f) == IF f = "query" THEN "DatabaseError" ELSE "ConnectionError"

\* The collaborator call made by the statement at pc.
CallAt(pc) ==
    IF pc = "idle" THEN "cache.get"
    ELSE IF pc = "missed" THEN "query"
    ELSE "cache.set"

\* get_all_properties() line 44 were it cache.add(): no write over an entry.
get_all_properties_set_adding(c, properties_list) ==
    IF ALL_KEY \in DOMAIN c THEN c
    ELSE CacheSet(c, ALL_KEY, properties_list, ALL_TIMEOUT)

\* get_all_properties() were line 44 not there.
get_all_properties_set_skipping(c, properties_list) == c

\* get_all_properties() line 44 with twice the timeout.
get_all_properties_set_long(c, properties_list) ==
    CacheSet(c, ALL_KEY, properties_list, 2 * ALL_TIMEOUT)

\* Line 44: cache.set(cache_key, properties_list, 3600)
get_all_properties_set(c, properties_list) ==
    CacheSet(c, ALL_KEY, properties_list, ALL_TIMEOUT)

\* get_all_properties() were a hit to renew the entry's expiry.
get_all_properties_renewing(c, listing, frame, f) ==
    IF frame.pc = "idle"
    THEN IF f = "cache.get"
         THEN Outcome(None, c, FALSE, 1, 0, 0, 0, Raised(f))
         ELSE LET cached_properties == CacheGet(c, ALL_KEY) IN
              IF cached_properties # None
              THEN Outcome(cached_properties,
                           CacheSet(c, ALL_KEY, cached_properties, ALL_TIMEOUT),
                           TRUE, 1, 0, 1, 0, "none")
              ELSE GoesOn("missed", None, c)
    ELSE IF frame.pc = "missed"
    THEN IF f = "query"
         THEN Outcome(None, c, FALSE, 1, 1, 0, 0, Raised(f))
         ELSE GoesOn("queried", listing, c)
    ELSE IF f = "cache.set"
         THEN Outcome(None, c, FALSE, 1, 1, 1, 0, Raised(f))
         ELSE Outcome(frame.value, get_all_properties_set(c, frame.value),
                      FALSE, 1, 1, 1, 0, "none")

\* get_all_properties() were it to test `if cached_properties:`.
get_all_properties_truthy(c, listing, frame, f) ==
    IF frame.pc = "idle"
    THEN IF f = "cache.get"
         THEN Outcome(None, c, FALSE, 1, 0, 0, 0, Raised(f))
         ELSE LET cached_properties == CacheGet(c, ALL_KEY) IN
              IF cached_properties # None /\ cached_properties # List(<<>>)
              THEN Outcome(cached_properties, c, TRUE, 1, 0, 0, 0, "none")
              ELSE GoesOn("missed", None, c)
    ELSE IF frame.pc = "missed"
    THEN IF f = "query"
         THEN Outcome(None, c, FALSE, 1, 1, 0, 0, Raised(f))
         ELSE GoesOn("queried", listing, c)
    ELSE IF f = "cache.set"
         THEN Outcome(None, c, FALSE, 1, 1, 1, 0, Raised(f))
         ELSE Outcome(frame.value, get_all_properties_set(c, frame.value),
                      FALSE, 1, 1, 1, 0, "none")

\* get_all_properties() were it to answer a failing query with an empty
\* list (`except Exception: properties_list = []`).
get_all_properties_swallowing(c, listing, frame, f) ==
    IF frame.pc = "idle"
    THEN IF f = "cache.get"
         THEN Outcome(None, c, FALSE, 1, 0, 0, 0, Raised(f))
         ELSE LET cached_properties == CacheGet(c, ALL_KEY) IN
              IF cached_properties # None
              THEN Outcome(cached_properties, c, TRUE, 1, 0, 0, 0, "none")
              ELSE GoesOn("missed", None, c)
    ELSE IF frame.pc = "missed"
    THEN IF f = "query"
         THEN GoesOn("queried", List(<<>>), c)
         ELSE GoesOn("queried", listing, c)
    ELSE IF f = "cache.set"
         THEN Outcome(None, c, FALSE, 1, 1, 1, 0, Raised(f))
         ELSE Outcome(frame.value, get_all_properties_set(c, frame.value),
                      FALSE, 1, 1, 1, 0, "none")

\* The statement of get_all_properties() that the call of `frame` is at:
\* lines 25-32, the cache.get and the return of what it found; lines 38-41,
\* the query, `listing` being what the Property table answers; lines 44-47,
\* the cache.set and the return of properties_list.
get_all_properties(c, listing, frame, f) ==
    IF frame.pc = "idle"
    THEN IF f = "cache.get"
         THEN Outcome(None, c, FALSE, 1, 0, 0, 0, Raised(f))
         ELSE LET cached_properties == CacheGet(c, ALL_KEY) IN
              IF cached_properties # None
              THEN Outcome(cached_properties, c, TRUE, 1, 0, 0, 0, "none")
              ELSE GoesOn("missed", None, c)
    ELSE IF frame.pc = "missed"
    THEN IF f = "query"
         THEN Outcome(None, c, FALSE, 1, 1, 0, 0, Raised(f))
         ELSE GoesOn("queried", listing, c)
    ELSE IF f = "cache.set"
         THEN Outcome(None, c, FALSE, 1, 1, 1, 0, Raised(f))
         ELSE Outcome(frame.value, get_all_properties_set(c, frame.value),
                      FALSE, 1, 1, 1, 0, "none")

\* invalidate_properties_cache() were it to delete another key.
invalidate_properties_cache_other_key(c, f) ==
    IF f = "cache.delete"
    THEN Outcome(None, c, FALSE, 0, 0, 0, 1, Raised(f))
    ELSE Outcome(None, CacheDelete(c, PropertyKey(1)), FALSE, 0, 0, 0, 1,
                 "none")

\* invalidate_properties_cache() were deleting an absent key a KeyError.
invalidate_properties_cache_strict(c, f) ==
    IF f = "cache.delete"
    THEN Outcome(None, c, FALSE, 0, 0, 0, 1, Raised(f))
    ELSE IF ALL_KEY \in DOMAIN c
    THEN Outcome(None, CacheDelete(c, ALL_KEY), FALSE, 0, 0, 0, 1, "none")
    ELSE Outcome(None, c, FALSE, 0, 0, 0, 1, "KeyError")

\* invalidate_properties_cache() were it cache.clear().
invalidate_properties_cache_clearing(c, f) ==
    IF f = "cache.delete"
    THEN Outcome(None, c, FALSE, 0, 0, 0, 1, Raised(f))
    ELSE Outcome(None, <<>>, FALSE, 0, 0, 0, 1, "none")

\* One statement: the cache.delete of line 58.
invalidate_properties_cache(c, f) ==
    IF f = "cache.delete"
    THEN Outcome(None, c, FALSE, 0, 0, 0, 1, Raised(f))
    ELSE Outcome(None, CacheDelete(c, ALL_KEY), FALSE, 0, 0, 0, 1, "none")

\* Property.objects.get() were it to answer a missing id with a Property
\* that is not in the table.
get_property_by_id_query_defaulting(d, property_id) ==
    IF property_id \in DOMAIN d
    THEN [raised |-> "none", value |-> d[property_id]]
    ELSE [raised |-> "none",
          value |-> [id |-> property_id, created_at |-> 1]]

\* Line 83, with what became of it (lines 90-92): Property.objects.get
get_property_by_id_query(d, property_id) == QueryGet(d, property_id)

\* Property.objects.get(id=property_id) when the database may fail.
QueryGetWithFault(d, property_id, f) ==
    IF f = "query"
    THEN [raised |-> Raised(f), value |-> None]
    ELSE get_property_by_id_query(d, property_id)

\* Line 86: cache.set(cache_key, property_obj, 1800)
get_property_by_id_set(c, property_id, property_obj) ==
    CacheSet(c, PropertyKey(property_id), property_obj, PROPERTY_TIMEOUT)

\* get_property_by_id() without the `except Property.DoesNotExist`.
get_property_by_id_uncaught(c, d, frame, f) ==
    LET property_id == frame.property_id
        cache_key == PropertyKey(property_id)
    IN  IF frame.pc = "idle"
        THEN IF f = "cache.get"
             THEN Outcome(None, c, FALSE, 1, 0, 0, 0, Raised(f))
             ELSE LET cached_property == CacheGet(c, cache_key) IN
                  IF cached_property # None
                  THEN Outcome(cached_property, c, TRUE, 1, 0, 0, 0, "none")
                  ELSE GoesOn("missed", None, c)
        ELSE IF frame.pc = "missed"
        THEN LET found == QueryGetWithFault(d, property_id, f) IN
             IF found.raised = "none"
             THEN GoesOn("queried", found.value, c)
             ELSE Outcome(None, c, FALSE, 1, 1, 0, 0, found.raised)
        ELSE IF f = "cache.set"
             THEN Outcome(None, c, FALSE, 1, 1, 1, 0, Raised(f))
             ELSE Outcome(frame.value,
                          get_property_by_id_set(c, property_id, frame.value),
                          FALSE, 1, 1, 1, 0, "none")

\* get_property_by_id() without the cache.set().
get_property_by_id_unstored(c, d, frame, f) ==
    LET property_id == frame.property_id
        cache_key == PropertyKey(property_id)
    IN  IF frame.pc = "idle"
        THEN IF f = "cache.get"
             THEN Outcome(None, c, FALSE, 1, 0, 0, 0, Raised(f))
             ELSE LET cached_property == CacheGet(c, cache_key) IN
                  IF cached_property # None
                  THEN Outcome(cached_property, c, TRUE, 1, 0, 0, 0, "none")
                  ELSE GoesOn("missed", None, c)
        ELSE IF frame.pc = "missed"
        THEN LET found == QueryGetWithFault(d, property_id, f) IN
             IF found.raised = "none"
             THEN GoesOn("queried", found.value, c)
             ELSE IF found.raised = "DoesNotExist"
             THEN Outcome(None, c, FALSE, 1, 1, 0, 0, "none")
             ELSE Outcome(None, c, FALSE, 1, 1, 0, 0, found.raised)
        ELSE Outcome(frame.value, c, FALSE, 1, 1, 0, 0, "none")

\* get_property_by_id() were it to cache False for an id it did not find.
get_property_by_id_negative(c, d, frame, f) ==
    LET property_id == frame.property_id
        cache_key == PropertyKey(property_id)
    IN  IF frame.pc = "idle"
        THEN IF f = "cache.get"
             THEN Outcome(None, c, FALSE, 1, 0, 0, 0, Raised(f))
             ELSE LET cached_property == CacheGet(c, cache_key) IN
                  IF cached_property # None
                  THEN Outcome(cached_property, c, TRUE, 1, 0, 0, 0, "none")
                  ELSE GoesOn("missed", None, c)
        ELSE IF frame.pc = "missed"
        THEN LET found == QueryGetWithFault(d, property_id, f) IN
             IF found.raised = "none"
             THEN GoesOn("queried", found.value, c)
             ELSE IF found.raised = "DoesNotExist"
             THEN Outcome(None,
                          CacheSet(c, cache_key, [py |-> "bool", v |-> FALSE],
                                   PROPERTY_TIMEOUT),
                          FALSE, 1, 1, 1, 0, "none")
             ELSE Outcome(None, c, FALSE, 1, 1, 0, 0, found.raised)
        ELSE IF f = "cache.set"
             THEN Outcome(None, c, FALSE, 1, 1, 1, 0, Raised(f))
             ELSE Outcome(frame.value,
                          get_property_by_id_set(c, property_id, frame.value),
                          FALSE, 1, 1, 1, 0, "none")

\* The statement of get_property_by_id(property_id) that the call of
\* `frame` is at: lines 72-79, the cache.get and the return of what it
\* found; lines 82-83 and 90-92, Property.objects.get and the return of
\* None when it raises DoesNotExist; lines 86-88, the cache.set and the
\* return of property_obj.
get_property_by_id(c, d, frame, f) ==
    LET property_id == frame.property_id
        cache_key == PropertyKey(property_id)
    IN  IF frame.pc = "idle"
        THEN IF f = "cache.get"
             THEN Outcome(None, c, FALSE, 1, 0, 0, 0, Raised(f))
             ELSE LET cached_property == CacheGet(c, cache_key) IN
                  IF cached_property # None
                  THEN Outcome(cached_property, c, TRUE, 1, 0, 0, 0, "none")
                  ELSE GoesOn("missed", None, c)
        ELSE IF frame.pc = "missed"
        THEN LET found == QueryGetWithFault(d, property_id, f) IN
             IF found.raised = "none"
             THEN GoesOn("queried", found.value, c)
             ELSE IF found.raised = "DoesNotExist"
             THEN Outcome(None, c, FALSE, 1, 1, 0, 0, "none")
             ELSE Outcome(None, c, FALSE, 1, 1, 0, 0, found.raised)
        ELSE IF f = "cache.set"
             THEN Outcome(None, c, FALSE, 1, 1, 1, 0, Raised(f))
             ELSE Outcome(frame.value,
                          get_property_by_id_set(c, property_id, frame.value),
                          FALSE, 1, 1, 1, 0, "none")

\* len(cached_data) if cached_data else 0: an empty list is falsy.
Truthy(v) == v # None /\ v # List(<<>>)

\* get_cache_stats() were `all_properties_cached` bool(cached_data).
get_cache_stats_truthy(c, f) ==
    IF f = "cache.get"
    THEN Outcome(None, c, FALSE, 1, 0, 0, 0, Raised(f))
    ELSE LET cached_data == CacheGet(c, ALL_KEY) IN
         Outcome([all_properties_cached |-> Truthy(cached_data),
                  all_properties_count |->
                      IF Truthy(cached_data) THEN len(cached_data) ELSE 0,
                  cache_key |-> ALL_KEY,
                  cache_timeout |-> STATS_TIMEOUT],
                 c, cached_data # None, 1, 0, 0, 0, "none")

\* get_cache_stats() were `cache_timeout` the entry's remaining time.
get_cache_stats_measured(c, f) ==
    IF f = "cache.get"
    THEN Outcome(None, c, FALSE, 1, 0, 0, 0, Raised(f))
    ELSE LET cached_data == CacheGet(c, ALL_KEY) IN
         Outcome([all_properties_cached |-> cached_data # None,
                  all_properties_count |->
                      IF Truthy(cached_data) THEN len(cached_data) ELSE 0,
                  cache_key |-> ALL_KEY,
                  cache_timeout |->
                      IF ALL_KEY \in DOMAIN c THEN c[ALL_KEY].ttl ELSE 0],
                 c, cached_data # None, 1, 0, 0, 0, "none")

\* One statement: the cache.get of line 105, and the dict built from it.
get_cache_stats(c, f) ==
    IF f = "cache.get"
    THEN Outcome(None, c, FALSE, 1, 0, 0, 0, Raised(f))
    ELSE LET cached_data == CacheGet(c, ALL_KEY) IN
         Outcome([all_properties_cached |-> cached_data # None,
                  all_properties_count |->
                      IF Truthy(cached_data) THEN len(cached_data) ELSE 0,
                  cache_key |-> ALL_KEY,
                  cache_timeout |-> STATS_TIMEOUT],
                 c, cached_data # None, 1, 0, 0, 0, "none")

\* warm_cache() were it to invalidate before it fetches.
warm_cache_forcing(c, listing, frame, f) ==
    LET properties ==
            get_all_properties(
                IF frame.pc = "idle" THEN CacheDelete(c, ALL_KEY) ELSE c,
                listing, frame, f)
    IN  IF properties.pc = "idle" /\ properties.raised = "none"
        THEN [properties EXCEPT !.ret = PyInt(len(properties.ret)),
                                !.deletes = 1]
        ELSE properties

\* The statement of warm_cache() that the call of `frame` is at: a
\* statement of the get_all_properties() of line 127, and, when that one
\* returns, the len() of line 131.
warm_cache(c, listing, frame, f) ==
    LET properties == get_all_properties(c, listing, frame, f) IN
    IF properties.pc = "idle" /\ properties.raised = "none"
    THEN [properties EXCEPT !.ret = PyInt(len(properties.ret))]
    ELSE properties

(***************************************************************************)
(* The metrics layer. hit_ratio is a Python float, an IEEE 754 double,     *)
(* and is modelled bit by bit: the division and the multiplication by 100  *)
(* each round to the nearest double, and round(..., 2) then takes the      *)
(* nearest hundredth of the double it is given. An exact tie (87 hits and  *)
(* 73 misses: 54.375) is therefore decided by the rounding errors before   *)
(* it, as in the code, which gives 54.37. hit_ratio_percentage is          *)
(* modelled as a whole number of hundredths.                               *)
(***************************************************************************)
InfoKeys == {"keyspace_hits", "keyspace_misses"}

\* The replies of redis_conn.info(), reduced to the two counters read; a
\* reply may lack either.
InfoReplies == UNION {[S -> 0..MaxCounter] : S \in SUBSET InfoKeys}

\* Where reaching the administrative interface fails.
Faults == {"none", "get_redis_connection", "info"}

\* str(e) of the exception the failing step raises.
ErrorText(f) ==
    IF f = "get_redis_connection" THEN "connection refused" ELSE "info failed"

\* dict.get(key, default)
DictGet(dict, key, default) == IF key \in DOMAIN dict THEN dict[key] ELSE default

\* The bits of the significand of a double.
Precision == 53

\* A double that is 0.0 or positive: the value m * 2^e, m a whole number of
\* Precision bits written in binary, most significant bit first, the first
\* bit 1; 0.0 has no bits.
Float(m, e) == [m |-> m, e |-> e]

\* The float 0.0
Zero == Float(<<>>, 0)

Zeros(n) == [i \in 1..n |-> 0]

\* The bits a whole number below 2^30 takes.
BitLength(n) == CHOOSE l \in 0..30 : (l = 0 \/ n >= 2^(l - 1)) /\ n < 2^l

\* n in binary, in `width` bits.
NatToWidth(n, width) == [i \in 1..width |-> (n \div 2^(width - i)) % 2]

\* n in binary, no leading zero.
NatToBits(n) == NatToWidth(n, BitLength(n))

RECURSIVE BitsToNat(_)
\* The whole number that s is in binary; s has 30 bits at most.
BitsToNat(s) ==
    IF s = <<>> THEN 0
    ELSE IF Len(s) = 1 THEN s[1]
    ELSE LET h == Len(s) \div 2
         IN  BitsToNat(SubSeq(s, 1, h)) * 2^(Len(s) - h)
                 + BitsToNat(SubSeq(s, h + 1, Len(s)))

\* s without its leading zeros.
Strip(s) ==
    LET ones == {i \in 1..Len(s) : s[i] = 1}
    IN  IF ones = {} THEN <<>>
        ELSE SubSeq(s, CHOOSE i \in ones : \A j \in ones : i <= j, Len(s))

\* The bits of s from the one worth 2^hi down to the one worth 2^lo, as a
\* whole number.
Limb(s, hi, lo) ==
    LET from == IF Len(s) - hi < 1 THEN 1 ELSE Len(s) - hi
    IN  IF Len(s) - lo < 1 THEN 0 ELSE BitsToNat(SubSeq(s, from, Len(s) - lo))

\* s * k + c in binary, for a binary s of 60 bits at most and numbers
\* k > 0 and c below 2000: worked out on s in three parts of 20 bits, the
\* low one first, each carrying into the next.
MulAdd(s, k, c) ==
    LET low == Limb(s, 19, 0) * k + c
        mid == Limb(s, 39, 20) * k + low \div 2^20
        top == Limb(s, 59, 40) * k + mid \div 2^20
    IN  Strip(NatToBits(top) \o NatToWidth(mid % 2^20, 20)
                  \o NatToWidth(low % 2^20, 20))

\* The double nearest to (s + fraction) * 2^e, a tie going to the even
\* significand: s is in binary with first bit 1, and `sticky` says that
\* the fraction, which is below 1, is not 0.
RoundToPrecision(s, sticky, e) ==
    IF Len(s) <= Precision
    THEN Float(s \o Zeros(Precision - Len(s)), e - (Precision - Len(s)))
    ELSE LET kept == SubSeq(s, 1, Precision)
             rest == SubSeq(s, Precision + 2, Len(s))
             more == sticky \/ \E i \in 1..Len(rest) : rest[i] = 1
             up == s[Precision + 1] = 1 /\ (more \/ kept[Precision] = 1)
             shifted == e + (Len(s) - Precision)
             next == MulAdd(kept, 1, 1)
         IN  IF ~up THEN Float(kept, shifted)
             ELSE IF Len(next) > Precision
             THEN Float(SubSeq(next, 1, Precision), shifted + 1)
             ELSE Float(next, shifted)

RECURSIVE DivPart(_, _, _)
\* Long division, 12 bits at a step: the next 12 * n bits of r / b, where
\* r < b < 2^19, and the remainder.
DivPart(r, b, n) ==
    IF n = 0 THEN [bits |-> <<>>, rem |-> r]
    ELSE LET rest == DivPart((r * 2^12) % b, b, n - 1)
         IN  [bits |-> NatToWidth((r * 2^12) \div b, 12) \o rest.bits,
              rem |-> rest.rem]

\* a / b for ints a >= 0 and 0 < b < 2^19: the double nearest to the
\* quotient. 84 bits after the point hold the significand, the bit after
\* it and the zeros before it.
TrueDiv(a, b) ==
    IF a = 0 THEN Zero
    ELSE LET fraction == DivPart(a % b, b, 7)
         IN  RoundToPrecision(Strip(NatToBits(a \div b) \o fraction.bits),
                              fraction.rem # 0, 0 - Len(fraction.bits))

\* x * k for a float x and a whole number k > 0 that a float holds exactly.
FloatTimes(x, k) ==
    IF x = Zero THEN Zero ELSE RoundToPrecision(MulAdd(x.m, k, 0), FALSE, x.e)

\* The float x in hundredths: the whole hundredths in it, the first bit of
\* what is left over (a half) and whether there is anything after it.
InHundredths(x) ==
    IF x = Zero THEN [whole |-> 0, half |-> 0, more |-> FALSE]
    ELSE LET product == MulAdd(x.m, 100, 0)
             bits == IF x.e >= 0 THEN product \o Zeros(x.e + 1)
                     ELSE Zeros(1 - x.e - Len(product)) \o product
             places == IF x.e >= 0 THEN 1 ELSE 0 - x.e
             point == Len(bits) - places
         IN  [whole |-> BitsToNat(SubSeq(bits, 1, point)),
              half |-> bits[point + 1],
              more |-> \E i \in (point + 2)..Len(bits) : bits[i] = 1]

\* round(x, 2), in hundredths: the hundredth nearest to the float x, a tie
\* going to the even one.
Round2(x) ==
    LET h == InHundredths(x)
    IN  IF h.half = 1 /\ (h.more \/ h.whole % 2 = 1)
        THEN h.whole + 1
        ELSE h.whole

\* x * 100 cut to two decimals instead of rounded.
RoundPercentage_truncating(x) == InHundredths(FloatTimes(x, 100)).whole

\* round(x * 100, 2), in hundredths.
RoundPercentage(x) == Round2(FloatTimes(x, 100))

\* get_redis_cache_metrics() were get_redis_connection() called before the
\* `try`.
get_redis_cache_metrics_connecting_outside_try(reply, f) ==
    IF f = "get_redis_connection"
    THEN [raised |-> ErrorText(f)]
    ELSE IF f # "none"
    THEN [error |-> ErrorText(f),
          keyspace_hits |-> 0,
          keyspace_misses |-> 0,
          total_requests |-> 0,
          hit_ratio |-> Zero,
          hit_ratio_percentage |-> 0]
    ELSE LET keyspace_hits == DictGet(reply, "keyspace_hits", 0)
             keyspace_misses == DictGet(reply, "keyspace_misses", 0)
             total_requests == keyspace_hits + keyspace_misses
             hit_ratio == IF total_requests > 0
                          THEN TrueDiv(keyspace_hits, total_requests)
                          ELSE Zero
         IN  [keyspace_hits |-> keyspace_hits,
              keyspace_misses |-> keyspace_misses,
              total_requests |-> total_requests,
              hit_ratio |-> hit_ratio,
              hit_ratio_percentage |-> RoundPercentage(hit_ratio)]

get_redis_cache_metrics(reply, f) ==
    IF f # "none"
    THEN [error |-> ErrorText(f),
          keyspace_hits |-> 0,
          keyspace_misses |-> 0,
          total_requests |-> 0,
          hit_ratio |-> Zero,
          hit_ratio_percentage |-> 0]
    ELSE LET keyspace_hits == DictGet(reply, "keyspace_hits", 0)
             keyspace_misses == DictGet(reply, "keyspace_misses", 0)
             total_requests == keyspace_hits + keyspace_misses
             hit_ratio == IF total_requests > 0
                          THEN TrueDiv(keyspace_hits, total_requests)
                          ELSE Zero
         IN  [keyspace_hits |-> keyspace_hits,
              keyspace_misses |-> keyspace_misses,
              total_requests |-> total_requests,
              hit_ratio |-> hit_ratio,
              hit_ratio_percentage |-> RoundPercentage(hit_ratio)]

(***************************************************************************)
(* Events: what `last` holds.                                              *)
(***************************************************************************)
\* A call of the cache layer that has ended: the function, its arguments,
\* its outcome, and prev, what came just before it.
Call(frame, out, prev) ==
    [op |-> frame.op,
     args |-> IF frame.op = "get_property_by_id"
              THEN <<frame.property_id>> ELSE <<>>,
     ret |-> out.ret, raised |-> out.raised, hit |-> out.hit,
     gets |-> out.gets, queries |-> out.queries, sets |-> out.sets,
     deletes |-> out.deletes, prev |-> prev]

\* Something that is not a call of the cache layer.
Other(op) ==
    [op |-> op, args |-> <<>>, ret |-> None, raised |-> "none",
     hit |-> FALSE, gets |-> 0, queries |-> 0, sets |-> 0, deletes |-> 0,
     prev |-> "-"]

NoEvent == Other("init")

\* What a call of get_cache_stats() or invalidate_properties_cache() came
\* right after: the event `event`, if it is a get_all_properties() or an
\* invalidate_properties_cache(). The other functions take several
\* statements, between which other events come: their prev is "-".
Before(event) ==
    IF event.op \in {"get_all_properties", "invalidate_properties_cache"}
    THEN event.op ELSE "-"

MetricsIdle == UNCHANGED <<info, fault, metrics>>

\* The functions that run get_all_properties().
AllCallers == {"get_all_properties", "warm_cache"}

\* The frames of the calls in flight.
InFlight == BagToSet(procs)

\* The frame of a call of `op` that is made now.
Called(op, property_id) == Frame(op, property_id, "idle", None)

\* The frames a statement of `op` may run from: a call of it in flight, or,
\* while fewer than MaxCalls calls are in flight, a call made now with an
\* argument of `ids`.
Callable(op, ids) ==
    {frame \in InFlight : frame.op = op}
        \cup (IF BagCardinality(procs) < MaxCalls
              THEN {Called(op, i) : i \in ids} ELSE {})

\* The calls in flight after the call at `frame` has run the statement
\* that does `out`: the call has moved on, or it has ended.
ProcsAfter(frame, out) ==
    (IF frame.pc = "idle" THEN procs ELSE procs (-) SetToBag({frame}))
        (+) (IF out.pc = "idle" THEN EmptyBag
             ELSE SetToBag({Frame(frame.op, frame.property_id,
                                  out.pc, out.value)}))

\* The call at `frame` runs the statement that does `out`: the cache is as
\* the statement leaves it; the call goes on, or it ends and is the most
\* recent event.
Statement(frame, out) ==
    /\ cache' = out.cache
    /\ procs' = ProcsAfter(frame, out)
    /\ last' = IF out.pc = "idle" THEN Call(frame, out, "-") ELSE last

(***************************************************************************)
(* Actions of Spec. Each runs one statement of the function: the first     *)
(* statement of a call made now, or the next statement of a call in        *)
(* flight. invalidate_properties_cache() and get_cache_stats() are one     *)
(* statement.                                                              *)
(***************************************************************************)
DoGetAllProperties ==
    \E frame \in Callable("get_all_properties", {0}) :
        /\ \E listing \in QueryAll(db) :
               Statement(frame,
                         get_all_properties(cache, listing, frame, "none"))
        /\ invalidated' = (invalidated /\ frame.pc # "queried")
        /\ UNCHANGED <<db, origin>>
        /\ MetricsIdle

DoInvalidatePropertiesCache ==
    LET frame == Called("invalidate_properties_cache", 0)
        out == invalidate_properties_cache(cache, "none")
    IN  /\ cache' = out.cache
        /\ last' = Call(frame, out, Before(last))
        /\ invalidated' = \A call \in InFlight : call.op \notin AllCallers
        /\ UNCHANGED <<db, procs, origin>>
        /\ MetricsIdle

DoGetPropertyById ==
    \E frame \in Callable("get_property_by_id", Ids) :
        /\ Statement(frame, get_property_by_id(cache, db, frame, "none"))
        /\ UNCHANGED <<db, invalidated, origin>>
        /\ MetricsIdle

DoGetCacheStats ==
    LET frame == Called("get_cache_stats", 0)
        out == get_cache_stats(cache, "none")
    IN  /\ cache' = out.cache
        /\ last' = Call(frame, out, Before(last))
        /\ UNCHANGED <<db, invalidated, procs, origin>>
        /\ MetricsIdle

DoWarmCache ==
    \E frame \in Callable("warm_cache", {0}) :
        /\ \E listing \in QueryAll(db) :
               Statement(frame, warm_cache(cache, listing, frame, "none"))
        /\ invalidated' = (invalidated /\ frame.pc # "queried")
        /\ UNCHANGED <<db, origin>>
        /\ MetricsIdle

\* A collaborator creates a Property.
CreateProperty ==
    \E r \in Property :
        /\ r.id \notin DOMAIN db
        /\ db' = [i \in DOMAIN db \cup {r.id} |-> IF i = r.id THEN r ELSE db[i]]
        /\ last' = Other("create")
        /\ UNCHANGED <<cache, invalidated, procs, origin>>
        /\ fault' = "none"
        /\ UNCHANGED <<info, metrics>>

\* A collaborator deletes a Property.
DeleteProperty ==
    \E i \in DOMAIN db :
        /\ db' = [j \in DOMAIN db \ {i} |-> db[j]]
        /\ last' = Other("delete")
        /\ UNCHANGED <<cache, invalidated, procs, origin>>
        /\ fault' = "none"
        /\ UNCHANGED <<info, metrics>>

\* TickStep seconds pass.
Tick ==
    /\ cache' = Expire(cache, TickStep)
    /\ last' = Other("tick")
    /\ UNCHANGED <<db, invalidated, procs, origin>>
    /\ fault' = "none"
    /\ UNCHANGED <<info, metrics>>

Init ==
    /\ db = <<>>
    /\ cache = <<>>
    /\ last = NoEvent
    /\ invalidated = FALSE
    /\ info = <<>>
    /\ fault = "none"
    /\ metrics = None
    /\ procs = EmptyBag
    /\ origin = <<>>

Next ==
    \/ DoGetAllProperties
    \/ DoInvalidatePropertiesCache
    \/ DoGetPropertyById
    \/ DoGetCacheStats
    \/ DoWarmCache
    \/ CreateProperty
    \/ DeleteProperty
    \/ Tick

Spec == Init /\ [][Next]_vars

(***************************************************************************)
(* Properties of the cache layer, checked under Spec.                      *)
(***************************************************************************)
\* This step runs a statement of a call in flight at `frame`.
Ran(frame) == CopiesIn(frame, procs') < CopiesIn(frame, procs)

\* After this step a call is at `frame` that was not there before.
Reached(frame) == CopiesIn(frame, procs') > CopiesIn(frame, procs)

\* This step is a call whose cache.get() finds nothing: the call is now in
\* flight, at `frame`.
CallMisses(frame) ==
    /\ frame.pc = "missed"
    /\ Reached(frame)
    /\ BagCardinality(procs') > BagCardinality(procs)

\* This step is the query of a call in flight at `frame`.
RunsQuery(frame) == frame.pc = "missed" /\ Ran(frame)

\* This step is the query of a call in flight at `frame`, which goes on to
\* its cache.set() holding `value`.
QueryAnswers(frame, value) ==
    /\ RunsQuery(frame)
    /\ Reached(Frame(frame.op, frame.property_id, "queried", value))

\* This step is the cache.set() of a call in flight at `frame`.
RunsSet(frame) == frame.pc = "queried" /\ Ran(frame)

\* This step ends a call in flight at `frame`.
Ends(frame) ==
    Ran(frame) /\ BagCardinality(procs') < BagCardinality(procs)

\* This step is a whole call of `op`: one that its first statement ends.
OneStatement(op) == procs' = procs /\ last' # last /\ last'.op = op

\* This step ends a call of `op`.
Returned(op) ==
    \/ OneStatement(op)
    \/ \E frame \in InFlight : frame.op = op /\ Ends(frame)

\* The frames this step has run a statement of `op` from: a call in flight,
\* or a call made in this step with an argument of `ids`.
Stepped(op, ids) ==
    {frame \in InFlight : frame.op = op /\ Ran(frame)}
        \cup {Called(op, i) : i \in
                 {j \in ids :
                     \/ OneStatement(op) /\ last'.args \in {<<>>, <<j>>}
                     \/ CallMisses(Frame(op, j, "missed", None))}}

\* The calls in flight at a statement of `op`.
At(op, pc) == {frame \in InFlight : frame.op = op /\ frame.pc = pc}

Present(c, key) == key \in DOMAIN c

\* Every key but `key` is as it was.
OthersUnchanged(key) ==
    /\ DOMAIN cache' \ {key} = DOMAIN cache \ {key}
    /\ \A k \in DOMAIN cache \ {key} : cache'[k] = cache[k]

\* s holds every row of the table once, newest first.
IsTableNewestFirst(s, d) ==
    /\ Len(s) = Cardinality(DOMAIN d)
    /\ {s[i] : i \in 1..Len(s)} = {d[i] : i \in DOMAIN d}
    /\ \A i, j \in 1..Len(s) : i < j => s[i].created_at >= s[j].created_at

\* C1: when invalidate_properties_cache() returns, `all_properties` is
\* absent from the cache; and when no get_all_properties() was in flight
\* then, whatever calls, table mutations and expiries come next, the key
\* stays absent until a get_all_properties() writes it: no call is served
\* from the cache, and the calls made miss and query the Property table.
C1_InvalidateForcesQuery ==
    [][/\ Returned("invalidate_properties_cache") => ~Present(cache', ALL_KEY)
       /\ invalidated' => ~Present(cache', ALL_KEY)
       /\ invalidated =>
              \A op \in AllCallers :
                  /\ ~OneStatement(op)
                  /\ \A frame \in At(op, "missed") :
                         RunsQuery(frame) =>
                             \E listing \in QueryAll(db) :
                                 QueryAnswers(frame, listing)]_vars

\* The first get_all_properties() since an invalidation has missed and
\* has queried a table that holds rows.
C1_Witness ==
    /\ invalidated
    /\ \E frame \in At("get_all_properties", "queried") :
           frame.value # List(<<>>)

\* C2 as stated: for an id with no row in the Property table every
\* get_property_by_id(id) returns None without raising, queries the table,
\* and leaves `property_{id}` absent.
C2_MissingIdAlwaysNone ==
    [][\A id \in Ids :
          (Returned("get_property_by_id") /\ last'.args = <<id>>
              /\ id \notin DOMAIN db) =>
              /\ last'.ret = None
              /\ last'.raised = "none"
              /\ last'.queries = 1
              /\ ~Present(cache', PropertyKey(id))]_vars

\* C2, amended: a get_property_by_id(id) that finds no `property_{id}`
\* entry in the cache and, at its query, no row with that id in the
\* Property table, returns None without raising, has queried the table
\* once, and writes nothing to the cache.
C2_MissingUncachedIdNone ==
    [][\A id \in Ids :
          LET missed == Frame("get_property_by_id", id, "missed", None) IN
          /\ CallMisses(missed) =>
                (~Present(cache, PropertyKey(id)) /\ cache' = cache)
          /\ (RunsQuery(missed) /\ id \notin DOMAIN db) =>
                /\ Ends(missed)
                /\ last'.op = "get_property_by_id"
                /\ last'.args = <<id>>
                /\ last'.ret = None
                /\ last'.raised = "none"
                /\ last'.queries = 1
                /\ last'.sets = 0
                /\ cache' = cache]_vars

\* A lookup of a missing id has returned None and cached nothing, and a
\* second lookup of the same id has missed in turn and is at its query.
C2_Witness ==
    /\ last.op = "get_property_by_id"
    /\ last.args[1] \notin DOMAIN db
    /\ last.ret = None
    /\ last.queries = 1
    /\ ~Present(cache, PropertyKey(last.args[1]))
    /\ \E frame \in At("get_property_by_id", "missed") :
           frame.property_id = last.args[1]

\* C3: in every state warm_cache() returns the number of rows the Property
\* table holds at the call - when the call reads the cache and returns,
\* when it queries - and leaves `all_properties` present with that many
\* entries.
C3_WarmCountsTable ==
    [][/\ OneStatement("warm_cache") =>
              /\ last'.ret = PyInt(Cardinality(DOMAIN db))
              /\ Present(cache', ALL_KEY)
              /\ len(cache'[ALL_KEY].value) = Cardinality(DOMAIN db)
       /\ \A frame \in At("warm_cache", "missed") :
              RunsQuery(frame) =>
                  \E listing \in QueryAll(db) : QueryAnswers(frame, listing)
       /\ \A frame \in At("warm_cache", "queried") :
              RunsSet(frame) =>
                  /\ last'.ret = PyInt(len(frame.value))
                  /\ Present(cache', ALL_KEY)
                  /\ cache'[ALL_KEY].value = frame.value]_vars

\* C4: get_cache_stats() right after get_all_properties() reports the key
\* cached and the length of the list that call returned, an empty list
\* included; right after invalidate_properties_cache() it reports the key
\* not cached and a count of 0.
C4_StatsAfterFetchAndInvalidate ==
    [][OneStatement("get_cache_stats") =>
          /\ last.op = "get_all_properties" =>
                /\ last'.ret.all_properties_cached = TRUE
                /\ last'.ret.all_properties_count = len(last.ret)
          /\ last.op = "invalidate_properties_cache" =>
                /\ last'.ret.all_properties_cached = FALSE
                /\ last'.ret.all_properties_count = 0]_vars

\* get_cache_stats() right after a get_all_properties() that cached an
\* empty list: cached, with a count of 0.
C4_Witness ==
    /\ last.op = "get_cache_stats"
    /\ last.prev = "get_all_properties"
    /\ Present(cache, ALL_KEY)
    /\ cache[ALL_KEY].value = List(<<>>)
    /\ last.ret.all_properties_cached

\* C7: invalidate_properties_cache() never raises; called when
\* `all_properties` is absent it changes nothing in the cache, and a second
\* call right after a first leaves the cache as the first left it.
C7_InvalidateIdempotent ==
    [][Returned("invalidate_properties_cache") =>
          /\ last'.raised = "none"
          /\ ~Present(cache, ALL_KEY) => cache' = cache
          /\ last.op = "invalidate_properties_cache" => cache' = cache]_vars

\* A second invalidation right after a first, with other keys in the cache.
C7_Witness ==
    /\ last.op = "invalidate_properties_cache"
    /\ last.prev = "invalidate_properties_cache"
    /\ last.raised = "none"
    /\ DOMAIN cache # {}

\* C8: when `all_properties` is present, get_all_properties() does not
\* miss: it returns the cached list as it is, does not query the Property
\* table and writes nothing: the cache, the entry's remaining time to live
\* included, is unchanged.
C8_HitReturnsCachedUnchanged ==
    [][/\ CallMisses(Frame("get_all_properties", 0, "missed", None)) =>
              ~Present(cache, ALL_KEY)
       /\ OneStatement("get_all_properties") =>
              /\ Present(cache, ALL_KEY)
              /\ last'.ret = cache[ALL_KEY].value
              /\ last'.hit
              /\ last'.queries = 0
              /\ last'.sets = 0
              /\ cache' = cache]_vars

\* A hit on an entry part of whose time to live has passed and whose list
\* is no longer what the table holds.
C8_Witness ==
    /\ last.op = "get_all_properties"
    /\ last.hit
    /\ Present(cache, ALL_KEY)
    /\ cache[ALL_KEY].ttl < ALL_TIMEOUT
    /\ last.ret = cache[ALL_KEY].value
    /\ last.ret \notin QueryAll(db)

\* C9: when `all_properties` is absent, get_all_properties() misses,
\* queries the Property table once, stores every row it read, newest first,
\* under `all_properties` for 3600 s and returns that list; an empty list
\* is cached like any other, so a get_all_properties() right after a miss
\* that fetched no rows is a hit and does not query the table.
C9_MissQueriesAndCaches ==
    [][/\ ~Present(cache, ALL_KEY) => ~OneStatement("get_all_properties")
       /\ CallMisses(Frame("get_all_properties", 0, "missed", None)) =>
              cache' = cache
       /\ \A frame \in At("get_all_properties", "missed") :
              RunsQuery(frame) =>
                  /\ cache' = cache
                  /\ \E listing \in QueryAll(db) :
                         /\ QueryAnswers(frame, listing)
                         /\ IsTableNewestFirst(listing.items, db)
       /\ \A frame \in At("get_all_properties", "queried") :
              RunsSet(frame) =>
                  /\ Ends(frame)
                  /\ cache'[ALL_KEY] = [value |-> frame.value, ttl |-> 3600]
                  /\ OthersUnchanged(ALL_KEY)
                  /\ last'.op = "get_all_properties"
                  /\ last'.ret = frame.value
                  /\ ~last'.hit
                  /\ last'.queries = 1
                  /\ last'.sets = 1
       /\ (last.op = "get_all_properties" /\ ~last.hit
               /\ last.ret = List(<<>>)) =>
              /\ Present(cache, ALL_KEY)
              /\ ~CallMisses(Frame("get_all_properties", 0, "missed", None))
              /\ OneStatement("get_all_properties") =>
                    /\ last'.hit
                    /\ last'.queries = 0
                    /\ last'.ret = List(<<>>)]_vars

\* A hit on a cached empty list, while the table holds rows.
C9_Witness ==
    /\ last.op = "get_all_properties"
    /\ last.hit
    /\ last.queries = 0
    /\ last.ret = List(<<>>)
    /\ db # <<>>

\* C10: when `property_{id}` is absent and the Property table holds, at
\* the query, a row with that id, get_property_by_id(id) misses, queries
\* the table once, stores the row under `property_{id}` for 1800 s and
\* returns it; when the entry is present, get_property_by_id(id) does not
\* miss: it returns the cached row and does not query the table.
C10_PropertyMissCachesThenHits ==
    [][\A id \in Ids :
          LET missed == Frame("get_property_by_id", id, "missed", None) IN
          /\ CallMisses(missed) =>
                (~Present(cache, PropertyKey(id)) /\ cache' = cache)
          /\ (RunsQuery(missed) /\ id \in DOMAIN db) =>
                (QueryAnswers(missed, db[id]) /\ cache' = cache)
          /\ \A frame \in At("get_property_by_id", "queried") :
                (RunsSet(frame) /\ frame.property_id = id) =>
                    /\ Ends(frame)
                    /\ Present(cache', PropertyKey(id))
                    /\ cache'[PropertyKey(id)] =
                           [value |-> frame.value, ttl |-> 1800]
                    /\ OthersUnchanged(PropertyKey(id))
                    /\ last'.op = "get_property_by_id"
                    /\ last'.args = <<id>>
                    /\ last'.ret = frame.value
                    /\ last'.raised = "none"
                    /\ last'.queries = 1
          /\ (OneStatement("get_property_by_id") /\ last'.args = <<id>>) =>
                /\ Present(cache, PropertyKey(id))
                /\ last'.ret = cache[PropertyKey(id)].value
                /\ last'.queries = 0
                /\ cache' = cache]_vars

\* A lookup served from the entry that a lookup of the same id has just
\* written.
C10_Witness ==
    /\ last.op = "get_property_by_id"
    /\ last.hit
    /\ last.queries = 0
    /\ last.args[1] \in DOMAIN db
    /\ last.ret = db[last.args[1]]
    /\ cache[PropertyKey(last.args[1])].ttl = PROPERTY_TIMEOUT

\* C11: every warm_cache() performs a cache.set() on `all_properties`
\* during the call, whatever the state of the key when the call starts.
C11_WarmAlwaysSets ==
    [][Returned("warm_cache") => last'.sets >= 1]_vars

\* C12: warm_cache() is get_all_properties() with the value reduced to its
\* length: each statement of it leaves the cache the statement of
\* get_all_properties() leaves and goes on as that one does, and when the
\* call ends it has made the cache and table calls get_all_properties()
\* makes and returns the length of the list get_all_properties() returns.
C12_WarmIsFetchLength ==
    [][\A frame \in Stepped("warm_cache", {0}) :
          \E listing \in QueryAll(db) :
              LET fetched == get_all_properties(cache, listing, frame, "none")
              IN  /\ cache' = fetched.cache
                  /\ procs' = ProcsAfter(frame, fetched)
                  /\ IF fetched.pc = "idle"
                     THEN /\ last'.op = "warm_cache"
                          /\ last'.ret = PyInt(Len(fetched.ret.items))
                          /\ last'.hit = fetched.hit
                          /\ last'.gets = fetched.gets
                          /\ last'.queries = fetched.queries
                          /\ last'.sets = fetched.sets
                          /\ last'.deletes = fetched.deletes
                          /\ last'.raised = fetched.raised
                     ELSE last' = last]_vars

\* warm_cache() served from an entry that no longer matches the table: it
\* returned the cached list's length, as get_all_properties() would.
C12_Witness ==
    /\ last.op = "warm_cache"
    /\ last.hit
    /\ last.queries = 0
    /\ Present(cache, ALL_KEY)
    /\ last.ret = PyInt(Len(cache[ALL_KEY].value.items))
    /\ Len(cache[ALL_KEY].value.items) # Cardinality(DOMAIN db)

PropertyKeys == {PropertyKey(id) : id \in Ids}

\* C13: a key of the cache layer is absent or present (with some of its
\* time to live left) and nothing else; it becomes present only by the
\* cache.set() of a call that missed on it and fetched from the Property
\* table - get_all_properties() or warm_cache() for `all_properties`, a
\* get_property_by_id(id) that found the row for `property_{id}` - and
\* becomes absent only by expiry or, for `all_properties`, by
\* invalidate_properties_cache(); a cache.get(), a query, get_cache_stats()
\* and a get_property_by_id() that finds nothing make no key present.
C13_KeyLifecycle ==
    [][/\ DOMAIN cache' \subseteq {ALL_KEY} \cup PropertyKeys
       /\ Present(cache', ALL_KEY) => cache'[ALL_KEY].ttl \in 1..3600
       /\ \A k \in PropertyKeys :
              Present(cache', k) => cache'[k].ttl \in 1..1800
       /\ (~Present(cache, ALL_KEY) /\ Present(cache', ALL_KEY)) =>
              \E frame \in InFlight :
                  /\ frame.op \in AllCallers
                  /\ RunsSet(frame)
                  /\ last'.op = frame.op
                  /\ ~last'.hit
                  /\ last'.queries = 1
                  /\ last'.raised = "none"
       /\ \A id \in Ids :
              (~Present(cache, PropertyKey(id))
                  /\ Present(cache', PropertyKey(id))) =>
                  \E frame \in At("get_property_by_id", "queried") :
                      /\ RunsSet(frame)
                      /\ frame.property_id = id
                      /\ last'.op = "get_property_by_id"
                      /\ last'.args = <<id>>
                      /\ ~last'.hit
                      /\ last'.queries = 1
                      /\ last'.ret \in Property
                      /\ last'.ret.id = id
       /\ (Present(cache, ALL_KEY) /\ ~Present(cache', ALL_KEY)) =>
              /\ procs' = procs
              /\ last'.op \in {"tick", "invalidate_properties_cache"}
       /\ \A k \in PropertyKeys :
              (Present(cache, k) /\ ~Present(cache', k)) =>
                  (procs' = procs /\ last'.op = "tick")
       /\ DOMAIN cache' # DOMAIN cache =>
              /\ \A frame \in InFlight : ~RunsQuery(frame)
              /\ \A frame \in InFlight' : ~CallMisses(frame)
              /\ ~Returned("get_cache_stats")
              /\ ~(Returned("get_property_by_id") /\ last'.ret = None)]_vars

\* `all_properties` and a `property_{id}`, each written by a call that
\* missed, half of the first's time to live gone and the second about to
\* expire.
C13_Witness ==
    /\ last.op = "tick"
    /\ Present(cache, ALL_KEY)
    /\ cache[ALL_KEY].ttl = ALL_TIMEOUT - TickStep
    /\ cache[ALL_KEY].value # List(<<>>)
    /\ \E id \in DOMAIN db : ~Present(cache, PropertyKey(id))

\* C19: get_cache_stats() makes one cache.get(), of `all_properties` (a hit
\* or a miss for the backend), queries nothing, sets and deletes nothing;
\* it reports cache_key 'all_properties' and cache_timeout 3600 whatever
\* the entry's presence and remaining time, and a count of 0 when the entry
\* is absent.
C19_StatsReadsOnce ==
    [][Returned("get_cache_stats") =>
          /\ last'.gets = 1
          /\ last'.hit = Present(cache, ALL_KEY)
          /\ last'.queries = 0
          /\ last'.sets = 0
          /\ last'.deletes = 0
          /\ cache' = cache
          /\ db' = db
          /\ last'.ret.cache_key = "all_properties"
          /\ last'.ret.cache_timeout = 3600
          /\ ~Present(cache, ALL_KEY) => last'.ret.all_properties_count = 0]_vars

\* Statistics of an entry half of whose time to live has passed.
C19_Witness ==
    /\ last.op = "get_cache_stats"
    /\ last.hit
    /\ Present(cache, ALL_KEY)
    /\ cache[ALL_KEY].ttl < 3600
    /\ last.ret.cache_timeout = 3600
    /\ last.ret.all_properties_count > 0

\* The cache with only the keys of `keys`.
Restrict(c, keys) == [k \in DOMAIN c \cap keys |-> c[k]]

\* C20: invalidate_properties_cache() deletes `all_properties` and leaves
\* every `property_{id}` entry as it is; get_property_by_id(id) reads and
\* writes `property_{id}` alone: what each statement of it does is what it
\* does on a cache that holds no other key, and every other key is left as
\* it is.
C20_KeyFamiliesIndependent ==
    [][/\ Returned("invalidate_properties_cache") =>
              /\ ~Present(cache', ALL_KEY)
              /\ OthersUnchanged(ALL_KEY)
       /\ \A frame \in Stepped("get_property_by_id", Ids) :
              LET key == PropertyKey(frame.property_id)
                  alone == get_property_by_id(Restrict(cache, {key}), db,
                                              frame, "none")
              IN  /\ OthersUnchanged(key)
                  /\ Restrict(cache', {key}) = alone.cache
                  /\ procs' = ProcsAfter(frame, alone)
                  /\ alone.pc = "idle" =>
                        /\ last'.ret = alone.ret
                        /\ last'.hit = alone.hit
                        /\ last'.queries = alone.queries]_vars

\* A Property deleted from the table, returned from its entry after an
\* invalidation that no get_all_properties() has followed.
C20_Witness ==
    /\ last.op = "get_property_by_id"
    /\ invalidated
    /\ last.hit
    /\ last.args[1] \notin DOMAIN db
    /\ last.ret.id = last.args[1]

(***************************************************************************)
(* SpecFault: get_all_properties(), invalidate_properties_cache() and      *)
(* get_property_by_id() with up to MaxCalls calls in flight, one statement *)
(* at a time, the collaborator call of any statement failing or not;       *)
(* `fault` is the call that failed in the most recent event, "none" if     *)
(* none did.                                                               *)
(***************************************************************************)
DoGetAllPropertiesWithFault ==
    \E frame \in Callable("get_all_properties", {0}) :
        /\ \E listing \in QueryAll(db), f \in {"none", CallAt(frame.pc)} :
               LET out == get_all_properties(cache, listing, frame, f) IN
               /\ Statement(frame, out)
               /\ fault' = IF out.pc = "idle" THEN f ELSE fault
        /\ UNCHANGED <<db, invalidated, info, metrics, origin>>

DoInvalidatePropertiesCacheWithFault ==
    \E f \in {"none", "cache.delete"} :
        LET frame == Called("invalidate_properties_cache", 0)
            out == invalidate_properties_cache(cache, f)
        IN  /\ cache' = out.cache
            /\ last' = Call(frame, out, Before(last))
            /\ fault' = f
            /\ UNCHANGED <<db, invalidated, info, metrics, procs, origin>>

DoGetPropertyByIdWithFault ==
    \E frame \in Callable("get_property_by_id", Ids) :
        /\ \E f \in {"none", CallAt(frame.pc)} :
               LET out == get_property_by_id(cache, db, frame, f) IN
               /\ Statement(frame, out)
               /\ fault' = IF out.pc = "idle" THEN f ELSE fault
        /\ UNCHANGED <<db, invalidated, info, metrics, origin>>

NextFault ==
    \/ DoGetAllPropertiesWithFault
    \/ DoInvalidatePropertiesCacheWithFault
    \/ DoGetPropertyByIdWithFault
    \/ CreateProperty
    \/ DeleteProperty
    \/ Tick

SpecFault == Init /\ [][NextFault]_vars

\* The functions C18 is about.
Guarded ==
    {"get_all_properties", "get_property_by_id", "invalidate_properties_cache"}

\* C18: a failure of the cache backend or of the Property table inside
\* get_all_properties(), get_property_by_id() or
\* invalidate_properties_cache() leaves the function as an exception, at
\* the statement that failed, with the cache as it was before the
\* statement; a call goes on past its query only with what the table
\* answered; the one outcome turned into a result is the id that is not
\* found, which gives None; and when the query fails on a miss there is no
\* cache.set(): the call has written nothing.
C18_FailuresPropagate ==
    [][/\ \A op \in Guarded :
              Returned(op) =>
                  /\ (last'.raised # "none") = (fault' # "none")
                  /\ fault' # "none" =>
                        /\ last'.raised = Raised(fault')
                        /\ last'.ret = None
                        /\ cache' = cache
       /\ \A frame \in InFlight :
              /\ (RunsQuery(frame) /\ Ends(frame) /\ fault' = "query") =>
                    /\ last'.op = frame.op
                    /\ last'.raised = "DatabaseError"
                    /\ last'.sets = 0
                    /\ cache' = cache
              /\ (RunsQuery(frame) /\ ~Ends(frame)) =>
                    /\ cache' = cache
                    /\ frame.op = "get_all_properties" =>
                          \E listing \in QueryAll(db) :
                              QueryAnswers(frame, listing)
                    /\ frame.op = "get_property_by_id" =>
                          /\ frame.property_id \in DOMAIN db
                          /\ QueryAnswers(frame, db[frame.property_id])
              /\ (RunsQuery(frame) /\ Ends(frame) /\ fault' = "none") =>
                    /\ frame.op = "get_property_by_id"
                    /\ frame.property_id \notin DOMAIN db
                    /\ last'.raised = "none"
                    /\ last'.ret = None
              /\ (RunsSet(frame) /\ fault' = "cache.set") =>
                    /\ last'.op = frame.op
                    /\ last'.raised = "ConnectionError"
                    /\ cache' = cache]_vars

\* A get_all_properties() that missed and whose query failed: it raised,
\* and the key is still absent although the table holds rows.
C18_Witness ==
    /\ last.op = "get_all_properties"
    /\ fault = "query"
    /\ last.raised = "DatabaseError"
    /\ last.sets = 0
    /\ ~Present(cache, ALL_KEY)
    /\ db # <<>>

(***************************************************************************)
(* SpecConc: get_all_properties() run by two workers at once, one          *)
(* statement at a time - cache.get (line 28), the query (lines 38-41),     *)
(* cache.set (line 44) - with invalidate_properties_cache(), changes of    *)
(* the Property table and the passing of time in between. Nothing in the   *)
(* source holds a lock.                                                    *)
(***************************************************************************)
Workers == {1, 2}

\* A worker: pc is "idle" (no call in flight), "missed" (cache.get found
\* nothing) or "queried" (properties_list is built); value is
\* properties_list while "queried" and what the last call returned while
\* "idle"; hit: the last cache.get found the key. History: staleFor, the
\* seconds since properties_list was last the table's collection;
\* crossed, invalidate_properties_cache() has deleted the key since the
\* query; lostHit, the entry hit had been written by a call that an
\* invalidation had crossed.
Worker(pc, value, hit, staleFor, crossed, lostHit) ==
    [pc |-> pc, value |-> value, hit |-> hit, staleFor |-> staleFor,
     crossed |-> crossed, lostHit |-> lostHit]

IdleWorker == Worker("idle", None, FALSE, 0, FALSE, FALSE)

\* The table's collection is `value` now.
IsCurrent(value, d) == value \in QueryAll(d)

\* Seconds since a value was last the table's collection, after TickStep
\* more; no longer counted once past ALL_TIMEOUT.
StaleAfterTick(value, d, staleFor) ==
    IF IsCurrent(value, d) THEN 0
    ELSE IF staleFor > ALL_TIMEOUT THEN staleFor
    ELSE staleFor + TickStep

\* Seconds since a value was last the table's collection, when the table
\* has just become d.
StaleAfterChange(value, d, staleFor) ==
    IF IsCurrent(value, d) THEN 0 ELSE staleFor

\* History of an entry: age, the seconds since the cache.set() that wrote
\* it; staleFor, as for a worker; fresh, no time had passed, when it was
\* written, since its value was the table's collection; lost, its writer
\* had been crossed by an invalidation; over, the cache.set() found the key
\* PRESENT.
Written(staleFor, lost, over) ==
    [age |-> 0, staleFor |-> staleFor, fresh |-> (staleFor = 0),
     lost |-> lost, over |-> over]

\* The history of the entries of cache c, `key` having been written as h.
OriginAfterSet(c, key, h) ==
    [k \in DOMAIN c |-> IF k = key THEN h ELSE origin[k]]

ConcIdle == UNCHANGED <<last, invalidated, info, fault, metrics>>

\* Lines 28-33: cache.get; on a hit the call returns what it found.
GetAllPropertiesGet(p) ==
    /\ procs[p].pc = "idle"
    /\ LET cached_properties == CacheGet(cache, ALL_KEY) IN
       procs' = [procs EXCEPT ![p] =
           IF cached_properties # None
           THEN Worker("idle", cached_properties, TRUE, 0, FALSE,
                       origin[ALL_KEY].lost)
           ELSE Worker("missed", None, FALSE, 0, FALSE, FALSE)]
    /\ UNCHANGED <<db, cache, origin>>
    /\ ConcIdle

\* Lines 38-41: the query, evaluated by list().
GetAllPropertiesQuery(p) ==
    /\ procs[p].pc = "missed"
    /\ \E properties_list \in QueryAll(db) :
           procs' = [procs EXCEPT ![p] =
               Worker("queried", properties_list, FALSE, 0, FALSE, FALSE)]
    /\ UNCHANGED <<db, cache, origin>>
    /\ ConcIdle

\* Lines 44-47: cache.set, and the call returns properties_list.
GetAllPropertiesSet(p) ==
    /\ procs[p].pc = "queried"
    /\ cache' = get_all_properties_set(cache, procs[p].value)
    /\ origin' = OriginAfterSet(cache', ALL_KEY,
                     Written(procs[p].staleFor, procs[p].crossed,
                             ALL_KEY \in DOMAIN cache))
    /\ procs' = [procs EXCEPT ![p] =
                     Worker("idle", procs[p].value, FALSE, 0, FALSE, FALSE)]
    /\ UNCHANGED db
    /\ ConcIdle

\* invalidate_properties_cache(), line 58: one cache.delete.
InvalidateDelete ==
    /\ cache' = invalidate_properties_cache(cache, "none").cache
    /\ origin' = [k \in DOMAIN cache' |-> origin[k]]
    /\ procs' = [p \in Workers |->
                    IF procs[p].pc = "queried"
                    THEN [procs[p] EXCEPT !.crossed = TRUE]
                    ELSE procs[p]]
    /\ UNCHANGED db
    /\ ConcIdle

\* The table becomes d while calls are in flight.
StoreBecomes(d) ==
    /\ db' = d
    /\ origin' = [k \in DOMAIN origin |->
                     [origin[k] EXCEPT !.staleFor =
                         StaleAfterChange(cache[k].value, d, @)]]
    /\ procs' = [p \in Workers |->
                    IF procs[p].pc = "queried"
                    THEN [procs[p] EXCEPT !.staleFor =
                             StaleAfterChange(procs[p].value, d, @)]
                    ELSE procs[p]]
    /\ UNCHANGED cache
    /\ ConcIdle

\* A collaborator creates a Property while calls are in flight.
StoreCreate ==
    \E r \in Property :
        /\ r.id \notin DOMAIN db
        /\ StoreBecomes([i \in DOMAIN db \cup {r.id} |->
                            IF i = r.id THEN r ELSE db[i]])

\* A collaborator deletes a Property while calls are in flight.
StoreDelete ==
    \E i \in DOMAIN db : StoreBecomes([j \in DOMAIN db \ {i} |-> db[j]])

\* TickStep seconds pass while calls are in flight.
Elapse ==
    /\ cache' = Expire(cache, TickStep)
    /\ origin' = [k \in DOMAIN cache' |->
                     [origin[k] EXCEPT
                         !.age = @ + TickStep,
                         !.staleFor = StaleAfterTick(cache[k].value, db, @)]]
    /\ procs' = [p \in Workers |->
                    IF procs[p].pc = "queried"
                    THEN [procs[p] EXCEPT !.staleFor =
                             StaleAfterTick(procs[p].value, db, @)]
                    ELSE procs[p]]
    /\ UNCHANGED db
    /\ ConcIdle

InitConc ==
    /\ db = <<>>
    /\ cache = <<>>
    /\ last = NoEvent
    /\ invalidated = FALSE
    /\ info = <<>>
    /\ fault = "none"
    /\ metrics = None
    /\ procs = [p \in Workers |-> IdleWorker]
    /\ origin = <<>>

NextConc ==
    \/ \E p \in Workers : GetAllPropertiesGet(p)
    \/ \E p \in Workers : GetAllPropertiesQuery(p)
    \/ \E p \in Workers : GetAllPropertiesSet(p)
    \/ InvalidateDelete
    \/ StoreCreate
    \/ StoreDelete
    \/ Elapse

SpecConc == InitConc /\ [][NextConc]_vars

(***************************************************************************)
(* Properties of overlapping calls, checked under SpecConc.                *)
(***************************************************************************)
\* This step is worker p's cache.get().
StepGet(p) == procs[p].pc = "idle" /\ procs'[p] # procs[p]

\* This step is worker p's query.
StepQuery(p) == procs[p].pc = "missed" /\ procs'[p].pc = "queried"

\* This step is worker p's cache.set().
StepSet(p) == procs[p].pc = "queried" /\ procs'[p].pc = "idle"

\* Both workers are idle, the last call of each missed, and the entry was
\* written over a PRESENT one: the two calls overlapped, both wrote, and
\* nothing has been written since.
BothWrote ==
    /\ Present(cache, ALL_KEY)
    /\ origin[ALL_KEY].over
    /\ \A p \in Workers : procs[p].pc = "idle" /\ ~procs[p].hit

\* C14 as stated: when two get_all_properties() overlap and both miss, both
\* query and both write, and the value left after the last write is the
\* collection as read by either of them, also when the table changes
\* between the two queries.
C14_OverlappingWritesEquivalent ==
    BothWrote =>
        \A p \in Workers : cache[ALL_KEY].value = procs[p].value

\* C14, amended: a call that missed queries and writes whatever the other
\* call does (no single-flight): its cache.set() overwrites the key with
\* the collection its own query read. The value left after the last write
\* is the collection as read by the call that wrote last; the other call
\* read the same collection if the table was, at its query, as the first
\* had read it and fixes the order of its rows.
C14_LastWriterWins ==
    [][/\ \A p \in Workers :
              /\ StepQuery(p) => IsCurrent(procs'[p].value, db)
              /\ StepSet(p) =>
                    /\ cache' = CacheSet(cache, ALL_KEY, procs[p].value,
                                         ALL_TIMEOUT)
                    /\ procs'[p].value = procs[p].value
       /\ \A p, q \in Workers :
              (/\ p # q
               /\ procs[p].pc = "queried"
               /\ StepQuery(q)
               /\ QueryAll(db) = {procs[p].value}) =>
                    procs'[q].value = procs[p].value
       /\ BothWrote' =>
              \E p \in Workers : cache'[ALL_KEY].value = procs'[p].value]_vars

\* Two overlapping calls both missed and both wrote; what is cached is what
\* the last writer read, and the other call returned something else.
C14_Witness ==
    /\ BothWrote
    /\ \E p, q \in Workers :
           /\ cache[ALL_KEY].value = procs[p].value
           /\ procs[q].value # procs[p].value

\* C15: the lost invalidation. A get_all_properties() that queried before
\* an invalidate_properties_cache() deleted the key still does its
\* cache.set() afterwards: the key is PRESENT again with what was read
\* before the invalidation; and a get_all_properties() that then starts is
\* a hit that returns it without a query.
C15_LostInvalidation ==
    [][\A p \in Workers :
           /\ (StepSet(p) /\ procs[p].crossed) =>
                 /\ Present(cache', ALL_KEY)
                 /\ cache'[ALL_KEY].value = procs[p].value
                 /\ origin'[ALL_KEY].lost
           /\ (StepGet(p) /\ Present(cache, ALL_KEY)) =>
                 /\ procs'[p].pc = "idle"
                 /\ procs'[p].hit
                 /\ procs'[p].value = cache[ALL_KEY].value
                 /\ procs'[p].lostHit = origin[ALL_KEY].lost
                 /\ cache' = cache]_vars

\* A call has hit an entry written after the invalidation by a call that
\* had queried before it, and what it returned is not the table's
\* collection.
C15_Witness ==
    \E p \in Workers :
        /\ procs[p].pc = "idle"
        /\ procs[p].hit
        /\ procs[p].lostHit
        /\ Present(cache, ALL_KEY)
        /\ origin[ALL_KEY].lost
        /\ procs[p].value = cache[ALL_KEY].value
        /\ ~IsCurrent(procs[p].value, db)

\* C17 as stated: whenever `all_properties` is PRESENT its value is the
\* table's collection as it was at most 3600 s earlier.
C17_StalenessWithinTimeout ==
    Present(cache, ALL_KEY) => origin[ALL_KEY].staleFor <= ALL_TIMEOUT

\* C17, amended: whenever `all_properties` is PRESENT it was written less
\* than 3600 s earlier, with the collection as read by the query of the
\* call that wrote it; if no time had passed between the table holding
\* that collection and the cache.set() (so, whenever the table still held
\* it), the value is the table's collection as it was no longer ago than
\* the entry was written.
C17_StalenessWithinTimeoutOfFreshWrite ==
    [][/\ \A p \in Workers :
              /\ StepQuery(p) =>
                    (IsCurrent(procs'[p].value, db) /\ procs'[p].staleFor = 0)
              /\ StepSet(p) =>
                    /\ Present(cache', ALL_KEY)
                    /\ cache'[ALL_KEY].value = procs[p].value
                    /\ IsCurrent(procs[p].value, db) => origin'[ALL_KEY].fresh
                    /\ origin'[ALL_KEY].fresh = (procs[p].staleFor = 0)
       /\ Present(cache', ALL_KEY) =>
              /\ origin'[ALL_KEY].age < ALL_TIMEOUT
              /\ origin'[ALL_KEY].age + cache'[ALL_KEY].ttl = ALL_TIMEOUT
              /\ origin'[ALL_KEY].fresh =>
                    origin'[ALL_KEY].staleFor <= origin'[ALL_KEY].age]_vars

\* An entry whose value was the table's collection when written, and has
\* not been since.
C17_Witness ==
    /\ Present(cache, ALL_KEY)
    /\ origin[ALL_KEY].fresh
    /\ origin[ALL_KEY].age > 0
    /\ origin[ALL_KEY].staleFor = origin[ALL_KEY].age
    /\ ~IsCurrent(cache[ALL_KEY].value, db)

(***************************************************************************)
(* SpecConcProperty: get_property_by_id() run by two workers at once, one  *)
(* statement at a time - cache.get (line 75), Property.objects.get (line   *)
(* 83), cache.set (line 86) - while collaborators create and delete        *)
(* Properties and time passes.                                             *)
(***************************************************************************)
\* A worker in get_property_by_id(property_id): pc and hit as in SpecConc;
\* value is property_obj while "queried" and what the last call returned
\* while "idle". History: existed, the table held property_obj under
\* property_id when it was queried.
Lookup(pc, property_id, value, hit, existed) ==
    [pc |-> pc, property_id |-> property_id, value |-> value, hit |-> hit,
     existed |-> existed]

IdleLookup == Lookup("idle", 0, None, FALSE, FALSE)

\* The table holds `value` under `property_id`.
Exists(d, property_id, value) ==
    property_id \in DOMAIN d /\ d[property_id] = value

\* Lines 72-79: cache.get; on a hit the call returns what it found.
GetPropertyByIdGet(p) ==
    /\ procs[p].pc = "idle"
    /\ \E property_id \in Ids :
           LET cached_property == CacheGet(cache, PropertyKey(property_id)) IN
           procs' = [procs EXCEPT ![p] =
               IF cached_property # None
               THEN Lookup("idle", property_id, cached_property, TRUE, FALSE)
               ELSE Lookup("missed", property_id, None, FALSE, FALSE)]
    /\ UNCHANGED <<db, cache, origin>>
    /\ ConcIdle

\* Lines 82-83 and 90-92: the query; DoesNotExist makes the call return
\* None.
GetPropertyByIdQuery(p) ==
    /\ procs[p].pc = "missed"
    /\ LET property_id == procs[p].property_id
           found == get_property_by_id_query(db, property_id)
       IN  procs' = [procs EXCEPT ![p] =
               IF found.raised = "none"
               THEN Lookup("queried", property_id, found.value, FALSE,
                           Exists(db, property_id, found.value))
               ELSE Lookup("idle", property_id, None, FALSE, FALSE)]
    /\ UNCHANGED <<db, cache, origin>>
    /\ ConcIdle

\* Lines 86-88: cache.set, and the call returns property_obj.
GetPropertyByIdSet(p) ==
    /\ procs[p].pc = "queried"
    /\ LET property_id == procs[p].property_id IN
       /\ cache' = get_property_by_id_set(cache, property_id, procs[p].value)
       /\ origin' = OriginAfterSet(cache', PropertyKey(property_id),
                        [atQuery |-> procs[p].existed,
                         atWrite |-> Exists(db, property_id, procs[p].value)])
       /\ procs' = [procs EXCEPT ![p] =
               Lookup("idle", property_id, procs[p].value, FALSE, FALSE)]
    /\ UNCHANGED db
    /\ ConcIdle

\* A collaborator creates a Property while calls are in flight.
RowCreated ==
    \E r \in Property :
        /\ r.id \notin DOMAIN db
        /\ db' = [i \in DOMAIN db \cup {r.id} |-> IF i = r.id THEN r ELSE db[i]]
        /\ UNCHANGED <<cache, procs, origin>>
        /\ ConcIdle

\* A collaborator deletes a Property while calls are in flight.
RowDeleted ==
    \E i \in DOMAIN db :
        /\ db' = [j \in DOMAIN db \ {i} |-> db[j]]
        /\ UNCHANGED <<cache, procs, origin>>
        /\ ConcIdle

\* TickStep seconds pass while calls are in flight.
EntriesExpire ==
    /\ cache' = Expire(cache, TickStep)
    /\ origin' = [k \in DOMAIN cache' |-> origin[k]]
    /\ UNCHANGED <<db, procs>>
    /\ ConcIdle

InitConcProperty ==
    /\ db = <<>>
    /\ cache = <<>>
    /\ last = NoEvent
    /\ invalidated = FALSE
    /\ info = <<>>
    /\ fault = "none"
    /\ metrics = None
    /\ procs = [p \in Workers |-> IdleLookup]
    /\ origin = <<>>

NextConcProperty ==
    \/ \E p \in Workers : GetPropertyByIdGet(p)
    \/ \E p \in Workers : GetPropertyByIdQuery(p)
    \/ \E p \in Workers : GetPropertyByIdSet(p)
    \/ RowCreated
    \/ RowDeleted
    \/ EntriesExpire

SpecConcProperty == InitConcProperty /\ [][NextConcProperty]_vars

\* C16 as stated: a PRESENT `property_{id}` entry holds a Record with
\* identifier id that was in the table at the moment the entry was
\* written, whatever the interleaving.
C16_EntryExistedAtWrite ==
    \A id \in Ids :
        Present(cache, PropertyKey(id)) =>
            /\ cache[PropertyKey(id)].value \in Property
            /\ cache[PropertyKey(id)].value.id = id
            /\ origin[PropertyKey(id)].atWrite

\* C16, amended: a PRESENT `property_{id}` entry holds a Record with
\* identifier id that was in the table at the moment the call that wrote
\* the entry queried it; a collaborator may have deleted it between that
\* query and the cache.set().
C16_EntryExistedAtQuery ==
    \A id \in Ids :
        Present(cache, PropertyKey(id)) =>
            /\ cache[PropertyKey(id)].value \in Property
            /\ cache[PropertyKey(id)].value.id = id
            /\ origin[PropertyKey(id)].atQuery

\* An entry written after its Property had been deleted: the Property was
\* in the table when queried, and not when cached.
C16_Witness ==
    \E id \in Ids :
        /\ Present(cache, PropertyKey(id))
        /\ origin[PropertyKey(id)].atQuery
        /\ ~origin[PropertyKey(id)].atWrite
        /\ id \notin DOMAIN db

(***************************************************************************)
(* SpecMetrics: get_redis_cache_metrics() on every reply and failure.      *)
(***************************************************************************)
DoGetRedisCacheMetrics ==
    /\ metrics' = get_redis_cache_metrics(info, fault)
    /\ UNCHANGED <<db, cache, last, invalidated, info, fault, procs, origin>>

InitMetrics ==
    /\ db = <<>>
    /\ cache = <<>>
    /\ last = NoEvent
    /\ invalidated = FALSE
    /\ info \in InfoReplies
    /\ fault \in Faults
    /\ metrics = None
    /\ procs = <<>>
    /\ origin = <<>>

NextMetrics == DoGetRedisCacheMetrics

SpecMetrics == InitMetrics /\ [][NextMetrics]_vars

(***************************************************************************)
(* Properties of the metrics layer, checked under SpecMetrics.             *)
(***************************************************************************)
Abs(n) == IF n < 0 THEN -n ELSE n

MetricsKeys ==
    {"keyspace_hits", "keyspace_misses", "total_requests", "hit_ratio",
     "hit_ratio_percentage"}

\* x <= y for whole numbers in binary with no leading zero.
LessEqBits(x, y) ==
    \/ Len(x) < Len(y)
    \/ /\ Len(x) = Len(y)
       /\ \/ x = y
          \/ \E i \in 1..Len(x) :
                 x[i] < y[i] /\ \A j \in 1..(i - 1) : x[j] = y[j]

\* The float x is a double no further from a / b than half a unit of its
\* last place, for 0 < a <= b < 2^10:
\* (2m - 1) * b <= a * 2^(1 - e) <= (2m + 1) * b.
IsNearestDouble(x, a, b) ==
    /\ Len(x.m) = Precision
    /\ x.m[1] = 1
    /\ x.e < 0
    /\ LessEqBits(MulAdd(x.m, 2 * b, 0),
                  NatToBits(a) \o Zeros(1 - x.e - 10) \o NatToWidth(b, 10))
    /\ LessEqBits(NatToBits(a) \o Zeros(1 - x.e), MulAdd(x.m, 2 * b, b))

\* C5: for the counters hits and misses the backend reports,
\* get_redis_cache_metrics() returns total_requests = hits + misses,
\* hit_ratio = hits / total_requests (the double nearest to it) when
\* total_requests > 0 and 0.0 when it is 0, and hit_ratio_percentage =
\* hit_ratio * 100 rounded to two decimals (within half a hundredth of the
\* percentage); hits = 80 and misses = 20 give a total of 100 and 80.0
\* percent.
C5_MetricsArithmetic ==
    (metrics # None /\ fault = "none") =>
        LET hits == metrics.keyspace_hits
            misses == metrics.keyspace_misses
            total == metrics.total_requests
            ratio == metrics.hit_ratio
            hundredths == metrics.hit_ratio_percentage
        IN  /\ "keyspace_hits" \in DOMAIN info => hits = info["keyspace_hits"]
            /\ "keyspace_misses" \in DOMAIN info =>
                   misses = info["keyspace_misses"]
            /\ total = hits + misses
            /\ hits > 0 => IsNearestDouble(ratio, hits, total)
            /\ hits = 0 => ratio = Zero
            /\ total = 0 => hundredths = 0
            /\ 2 * Abs(hundredths * total - 10000 * hits) <= total
            /\ (hits = 80 /\ misses = 20) => (total = 100 /\ hundredths = 8000)

\* The metrics of a backend that reports 80 hits and 20 misses: the ratio
\* is the double 0.8, which is 7205759403792794 / 2^53.
C5_Witness ==
    /\ fault = "none"
    /\ info = [keyspace_hits |-> 80, keyspace_misses |-> 20]
    /\ metrics # None
    /\ metrics.total_requests = 100
    /\ metrics.hit_ratio.e = 0 - 53
    /\ BitsToNat(SubSeq(metrics.hit_ratio.m, 1, 26)) = 53687091
    /\ BitsToNat(SubSeq(metrics.hit_ratio.m, 27, 53)) = 26843546
    /\ metrics.hit_ratio_percentage = 8000

\* C6: when get_redis_connection() or info() fails,
\* get_redis_cache_metrics() does not raise: it returns a dict with every
\* counter 0, both ratios 0.0 and an `error` entry; the dict of a call that
\* reached the backend has no `error` entry.
C6_MetricsFailureDegrades ==
    metrics # None =>
        /\ fault # "none" =>
              /\ DOMAIN metrics = MetricsKeys \cup {"error"}
              /\ metrics.keyspace_hits = 0
              /\ metrics.keyspace_misses = 0
              /\ metrics.total_requests = 0
              /\ metrics.hit_ratio = Zero
              /\ metrics.hit_ratio_percentage = 0
        /\ fault = "none" => DOMAIN metrics = MetricsKeys

\* The degraded metrics of a backend that counts hits but cannot be
\* connected to.
C6_Witness ==
    /\ fault = "get_redis_connection"
    /\ DictGet(info, "keyspace_hits", 0) > 0
    /\ metrics # None
    /\ "error" \in DOMAIN metrics
    /\ metrics.keyspace_hits = 0

(***************************************************************************)
(* SpecViews: the views of properties/views.py, each request taken one     *)
(* statement at a time. property_list and property_list_html are wrapped   *)
(* in cache_page(60 * 15): the response is looked up in the Django cache   *)
(* before the view runs, and stored in it for 900 s after the view has     *)
(* run. Django derives the key of a page from the URL of the request and   *)
(* keeps, under a second key with the same timeout, the headers the        *)
(* response varies on; the two are one entry here. The timestamp of a      *)
(* response, the wall clock's, is left out.                                *)
(***************************************************************************)
PAGE_TIMEOUT == 900

\* Requests that may be in flight at once.
MaxRequests == 1

\* The frames a request of `view` may run a statement of: one in flight,
\* or a new one while fewer than MaxRequests are.
Requestable(view) ==
    {frame \in InFlight : frame.op = view}
        \cup (IF BagCardinality(procs) < MaxRequests
              THEN {Called(view, 0)} ELSE {})

PageKey(view) == "views.decorators.cache.cache_page." \o view

PageKeys == {PageKey("property_list"), PageKey("property_list_html")}

\* The statement ends the request with `response`; cached: it is the
\* response cache_page had stored.
Responds(response, c, cached) ==
    [pc |-> "idle", value |-> None, ret |-> response, cache |-> c,
     hit |-> cached]

\* The frame of the get_all_properties() that a view calls at "view".
Inner(frame) == [frame EXCEPT !.pc = IF @ = "view" THEN "idle" ELSE @]

\* Lines 21-30: properties_data; created_at goes through isoformat().
PropertiesData(properties) ==
    List([i \in 1..Len(properties.items) |->
             [id |-> properties.items[i].id,
              created_at |-> IntStr(properties.items[i].created_at)]])

\* Lines 36-45: the JsonResponse of property_list.
PropertyListResponse(properties, stats) ==
    [properties |-> PropertiesData(properties),
     count |-> len(PropertiesData(properties)),
     cached |-> TRUE,
     cache_info |->
         [view_cache_duration |-> "15 minutes",
          queryset_cache_duration |-> "1 hour",
          low_level_cache_active |-> stats.all_properties_cached]]

\* The statement of a request of property_list that `frame` is at: the
\* lookup of cache_page ("idle"); a statement of the get_all_properties()
\* of line 18 ("view", "missed", "queried"); the get_cache_stats() of line
\* 33 and the JsonResponse ("listed"); the cache.set() of cache_page
\* ("rendered").
property_list(c, listing, frame) ==
    IF frame.pc = "idle"
    THEN LET response == CacheGet(c, PageKey("property_list")) IN
         IF response # None THEN Responds(response, c, TRUE)
         ELSE GoesOn("view", None, c)
    ELSE IF frame.pc \in {"view", "missed", "queried"}
    THEN LET properties ==
                 get_all_properties(c, listing, Inner(frame), "none")
         IN  IF properties.pc = "idle"
             THEN GoesOn("listed", properties.ret, properties.cache)
             ELSE properties
    ELSE IF frame.pc = "listed"
    THEN LET stats == get_cache_stats(c, "none") IN
         GoesOn("rendered", PropertyListResponse(frame.value, stats.ret), c)
    ELSE Responds(frame.value,
                  CacheSet(c, PageKey("property_list"), frame.value,
                           PAGE_TIMEOUT),
                  FALSE)

\* The statement of a request of property_list_html that `frame` is at:
\* the lookup of cache_page; a statement of the get_all_properties() of
\* line 54; render() and the cache.set() of cache_page ("listed").
property_list_html(c, listing, frame) ==
    IF frame.pc = "idle"
    THEN LET response == CacheGet(c, PageKey("property_list_html")) IN
         IF response # None THEN Responds(response, c, TRUE)
         ELSE GoesOn("view", None, c)
    ELSE IF frame.pc \in {"view", "missed", "queried"}
    THEN LET properties ==
                 get_all_properties(c, listing, Inner(frame), "none")
         IN  IF properties.pc = "idle"
             THEN GoesOn("listed", properties.ret, properties.cache)
             ELSE properties
    ELSE LET response ==
                 [template |-> "properties/property_list.html",
                  properties |-> frame.value, cached |-> TRUE]
         IN  Responds(response,
                      CacheSet(c, PageKey("property_list_html"), response,
                               PAGE_TIMEOUT),
                      FALSE)

\* One statement: lines 68-73.
cache_stats(c) ==
    Responds([cache_statistics |-> get_cache_stats(c, "none").ret], c, FALSE)

\* The statement of a request of warm_cache_view that `frame` is at: a
\* statement of the warm_cache() of line 84, and the JsonResponse when that
\* one returns.
warm_cache_view(c, listing, frame) ==
    LET count == warm_cache(c, listing, frame, "none") IN
    IF count.pc = "idle"
    THEN Responds([message |-> "Cache warmed up successfully",
                   properties_cached |-> count.ret],
                  count.cache, FALSE)
    ELSE count

\* A request of `frame.op` runs the statement that does `out`: the request
\* goes on, or it is answered and the response is the most recent event.
Request(frame, out) ==
    /\ cache' = out.cache
    /\ procs' = ProcsAfter(frame, out)
    /\ last' = IF out.pc = "idle"
               THEN [op |-> frame.op, ret |-> out.ret, hit |-> out.hit]
               ELSE last

ViewsIdle == UNCHANGED <<db, invalidated, info, fault, metrics, origin>>

DoPropertyList ==
    \E frame \in Requestable("property_list"), listing \in QueryAll(db) :
        /\ Request(frame, property_list(cache, listing, frame))
        /\ ViewsIdle

DoPropertyListHtml ==
    \E frame \in Requestable("property_list_html"),
       listing \in QueryAll(db) :
        /\ Request(frame, property_list_html(cache, listing, frame))
        /\ ViewsIdle

DoCacheStats ==
    /\ Request(Called("cache_stats", 0), cache_stats(cache))
    /\ ViewsIdle

DoWarmCacheView ==
    \E frame \in Requestable("warm_cache_view"), listing \in QueryAll(db) :
        /\ Request(frame, warm_cache_view(cache, listing, frame))
        /\ ViewsIdle

\* A collaborator calls invalidate_properties_cache() while requests are
\* in flight.
InvalidateUnderViews ==
    /\ cache' = invalidate_properties_cache(cache, "none").cache
    /\ last' = Other("invalidate_properties_cache")
    /\ UNCHANGED procs
    /\ ViewsIdle

NextViews ==
    \/ DoPropertyList
    \/ DoPropertyListHtml
    \/ DoCacheStats
    \/ DoWarmCacheView
    \/ InvalidateUnderViews
    \/ CreateProperty
    \/ DeleteProperty
    \/ Tick

SpecViews == Init /\ [][NextViews]_vars

\* Every page in the cache is a response its view has built, with some of
\* its 900 s left.
PagesAreResponses ==
    /\ Present(cache, PageKey("property_list")) =>
          LET page == cache[PageKey("property_list")] IN
          /\ page.ttl \in 1..PAGE_TIMEOUT
          /\ page.value.cached
          /\ page.value.count = len(page.value.properties)
    /\ Present(cache, PageKey("property_list_html")) =>
          LET page == cache[PageKey("property_list_html")] IN
          /\ page.ttl \in 1..PAGE_TIMEOUT
          /\ page.value.cached
          /\ page.value.template = "properties/property_list.html"

\* invalidate_properties_cache() deletes `all_properties` and leaves the
\* pages of cache_page where they are.
InvalidateKeepsPages ==
    [][InvalidateUnderViews =>
          /\ ~Present(cache', ALL_KEY)
          /\ Restrict(cache', PageKeys) = Restrict(cache, PageKeys)]_vars

\* A request answered from the page, after `all_properties` was
\* invalidated, with the rows of a table that has none any more.
PageOutlivesInvalidation ==
    /\ last.op = "property_list"
    /\ last.hit
    /\ last.ret.count > 0
    /\ db = <<>>
    /\ ~Present(cache, ALL_KEY)
    /\ procs = EmptyBag

\* A page that says `all_properties` is in the cache, stored when a call
\* of invalidate_properties_cache() has since deleted it.
PageReportsDeletedEntry ==
    /\ Present(cache, PageKey("property_list"))
    /\ cache[PageKey("property_list")].value.cache_info.low_level_cache_active
    /\ cache[PageKey("property_list")].ttl = PAGE_TIMEOUT
    /\ ~Present(cache, ALL_KEY)

====
